---- MODULE Spec2Model ----
(***************************************************************************)
(* Model of the AiNews pipeline: Deduplicator, SourceManager / JsonStore    *)
(* (the sources file and the date-partitioned article files),              *)
(* FetchOrchestrator.fetch_all / fetch_single, Source.should_fetch and     *)
(* Summarizer.generate_summary / get_summary.                              *)
(***************************************************************************)
EXTENDS Integers, Sequences, FiniteSets, TLC

\* ------------------------------------------------------------------ bounds
MaxNew == 3          \* longest new_articles list given to deduplicate
MaxExisting == 1     \* longest existing_articles list given to deduplicate
MaxTime == 1         \* last hour the clock reaches
max_concurrent_fetches == 1   \* Settings.max_concurrent_fetches of the modelled runs
MaxClock == 25       \* last hour tried for should_fetch
MaxArticles == 3     \* longest article list given to generate_summary
max_articles_per_summary == 2   \* Settings.max_articles_per_summary of the modelled runs
MaxCalls == 2        \* generate_summary calls in one run of the summarize command

\* ------------------------------------------------------------ value domains
NULL == "None"                  \* None where a string is expected
Never == 0 - 1                   \* None where a time or a date is expected
NoSource == [none |-> TRUE]      \* None where a Source is expected
Ids == {"u1", "u2"}              \* Article.id (hash of the URL)
Hashes == {"", "h1"}             \* Article.content_hash ("" = no content)
Titles == {"t1", "t2"}           \* Article.title
Article == [id : Ids, content_hash : Hashes, title : Titles]

Procs == {"p1", "p2"}           \* operating-system processes running the CLI
SourceIds == {1, 2}              \* Source.id of the sources in the registry file
Intervals == {0, 1}              \* Source.fetch_interval_hours of the modelled sources

\* the entry lists a feed or page of the model serves: an article with content,
\* the same URL under another title and without content, the same content under
\* another URL, and an unrelated article without content
ArtA == [id |-> "u1", content_hash |-> "h1", title |-> "t1"]
ArtA2 == [id |-> "u1", content_hash |-> "", title |-> "t2"]
ArtB == [id |-> "u2", content_hash |-> "h1", title |-> "t1"]
ArtC == [id |-> "u2", content_hash |-> "", title |-> "t1"]
FeedsOf(source_id) ==
    IF source_id = 1 THEN {<<ArtA, ArtA2>>, <<ArtC>>} ELSE {<<ArtB>>, <<ArtA2, ArtC>>}

BSeq(S, n) == UNION {[1..k -> S] : k \in 0..n}
Range(s) == {s[i] : i \in 1..Len(s)}

\* ---------------------------------------------------------------- variables
VARIABLES
    d_new,        \* deduplicate: argument new_articles
    d_existing,   \* deduplicate: argument existing_articles
    d_result,     \* deduplicate: returned list
    d_pc,         \* "call" before deduplicate ran, "done" after
    registry,     \* items of the sources file (list of Source records)
    partition,    \* items of the article file of the current date
    feed,         \* per source: the entries its feed or page serves
    now,          \* datetime.utcnow(), in hours
    procs,        \* the processes that exist in this run
    pc,           \* per process: position inside fetch_all
    args,         \* per process: arguments of the running invocation
    tasks,        \* per process: the fetch_with_semaphore tasks given to gather
    semaphore,    \* per process: free permits of the asyncio.Semaphore
    mk,           \* per process: locals of the running update_source call
    frame,        \* per process: locals of fetch_all after gather
    prev,         \* history: the process's previous invocation, while no time has passed
    returned_ids, \* history: the ids returned as new by the finished invocations
    undecodable,  \* the article file of the current date holds text that is not JSON
    sf_source,    \* should_fetch: the Source it is called on
    sf_now,       \* should_fetch: datetime.utcnow() during the call, in hours
    sf_result,    \* should_fetch: returned value
    sf_pc,        \* "call" before should_fetch ran, "done" after
    article_store,  \* Summarizer.article_store: per date, the stored articles
    summary_store,  \* Summarizer.summary_store: per date, the items of the summary file
    s_pc,         \* position inside generate_summary
    s_args,       \* generate_summary: target_date and articles of the current call
    s_kept,       \* generate_summary: local `articles` after the cap
    s_prompt,     \* the prompt sent to the client: per article block, the article's URL id
    s_response,   \* the response_text the generation client returned
    s_result,     \* generate_summary: returned value
    s_calls,      \* generate_summary calls started in this run
    requests,     \* requests issued to the generation client in this run
    g_result,     \* get_summary: returned value
    s_latest,     \* history: per date, the summary generate_summary returned last
    attempt,      \* ClaudeClient.generate: attempt_number of the running call, 0 outside
    waits,        \* ClaudeClient.generate: the waits slept before the retries of the call
    o_pc,         \* position inside the generate_summary of a second process
    o_args,       \* the second process's target_date and articles
    o_result,     \* the second process's returned value
    saver         \* history: per date, the process that saved the summary file last

dvars == <<d_new, d_existing, d_result, d_pc>>
envvars == <<feed, now, procs>>
storevars == <<registry, partition>>
procvars == <<pc, args, tasks, semaphore, mk, frame>>
histvars == <<prev, returned_ids>>
sfvars == <<sf_source, sf_now, sf_result, sf_pc>>
sumvars == <<article_store, summary_store, s_pc, s_args, s_kept, s_prompt, s_response, s_result,
             s_calls, requests, g_result, s_latest, attempt, waits, o_pc, o_args,
             o_result, saver>>
clientvars == <<attempt, waits>>
rivalvars == <<o_pc, o_args, o_result>>
xvars == <<sfvars, sumvars>>
ovars == <<registry, partition, feed, now, procs, pc, args, tasks, semaphore, mk,
           frame, prev, returned_ids, undecodable>>
vars == <<d_new, d_existing, d_result, d_pc, registry, partition, feed, now, procs,
          pc, args, tasks, semaphore, mk, frame, prev, returned_ids, undecodable,
          sfvars, sumvars>>

\* --------------------------------------------------------------- Deduplicator
ExistingIdsNone(existing_articles) == {}
\* dedup.py:38  existing_ids = {a.id for a in existing_articles}
ExistingIds(existing_articles) ==
    {existing_articles[k].id : k \in 1..Len(existing_articles)}

ExistingHashesNone(existing_articles) == {}
\* dedup.py:39  existing_hashes = {a.content_hash for a in existing if a.content_hash}
ExistingHashes(existing_articles) ==
    {existing_articles[k].content_hash :
        k \in {j \in 1..Len(existing_articles) : existing_articles[j].content_hash # ""}}

SkipArticleNoSeenIds(article, existing_ids, existing_hashes, seen_ids, seen_hashes) ==
    \/ article.id \in existing_ids
    \/ /\ article.content_hash # ""
       /\ \/ article.content_hash \in existing_hashes
          \/ article.content_hash \in seen_hashes
\* dedup.py:47-53  the two `continue` conditions of the loop body
SkipArticle(article, existing_ids, existing_hashes, seen_ids, seen_hashes) ==
    \/ article.id \in existing_ids \/ article.id \in seen_ids
    \/ /\ article.content_hash # ""
       /\ \/ article.content_hash \in existing_hashes
          \/ article.content_hash \in seen_hashes

\* dedup.py:45-61  the for loop, from position i on
RECURSIVE DedupLoop(_, _, _, _, _, _, _)
DedupLoop(new_articles, i, existing_ids, existing_hashes, unique_articles, seen_ids, seen_hashes) ==
    IF i > Len(new_articles) THEN unique_articles
    ELSE LET article == new_articles[i] IN
         IF SkipArticle(article, existing_ids, existing_hashes, seen_ids, seen_hashes)
         THEN DedupLoop(new_articles, i + 1, existing_ids, existing_hashes,
                        unique_articles, seen_ids, seen_hashes)
         ELSE DedupLoop(new_articles, i + 1, existing_ids, existing_hashes,
                        Append(unique_articles, article),
                        seen_ids \cup {article.id},
                        IF article.content_hash # ""
                        THEN seen_hashes \cup {article.content_hash}
                        ELSE seen_hashes)

\* dedup.py:18-61  Deduplicator.deduplicate
deduplicate(new_articles, existing_articles) ==
    IF new_articles = <<>> THEN <<>>
    ELSE DedupLoop(new_articles, 1, ExistingIds(existing_articles),
                   ExistingHashes(existing_articles), <<>>, {}, {})

\* ------------------------------------------------------ Source / SourceManager
\* source.py:18-47  the fields of Source the pipeline reads or writes
Source(id, enabled, last_fetched, fetch_interval_hours, source_type) ==
    [id |-> id, enabled |-> enabled, last_fetched |-> last_fetched,
     fetch_interval_hours |-> fetch_interval_hours, source_type |-> source_type]

should_fetchStrict(source, t) ==
    IF ~source.enabled THEN FALSE
    ELSE IF source.last_fetched = Never THEN TRUE
    ELSE t - source.last_fetched > source.fetch_interval_hours
\* source.py:49-56  Source.should_fetch, at clock value t
should_fetch(source, t) ==
    IF ~source.enabled THEN FALSE
    ELSE IF source.last_fetched = Never THEN TRUE
    ELSE t - source.last_fetched >= source.fetch_interval_hours

\* json_store.py:73-79  JsonStore.get_by_id on the loaded items (first match, or None)
get_by_id(items, item_id) ==
    IF \E k \in 1..Len(items) : items[k].id = item_id
    THEN items[CHOOSE k \in 1..Len(items) :
                  /\ items[k].id = item_id
                  /\ \A j \in 1..(k - 1) : items[j].id # item_id]
    ELSE NoSource

list_sourcesAll(items) == items
\* manager.py:25-30  SourceManager.list_sources(enabled_only=True)
list_sources(items) ==
    LET IsEnabled(s) == s.enabled IN SelectSeq(items, IsEnabled)

\* manager.py:103-106  SourceManager.get_sources_to_fetch
get_sources_to_fetch(items, t) ==
    LET Due(s) == should_fetch(s, t) IN SelectSeq(list_sources(items), Due)

\* json_store.py:81-89  JsonStore.update: the items to save (first match replaced)
UpdatedItems(items, item_id, updated_item) ==
    LET k == CHOOSE k \in 1..Len(items) :
                 /\ items[k].id = item_id
                 /\ \A j \in 1..(k - 1) : items[j].id # item_id
    IN [items EXCEPT ![k] = updated_item]

MarkedSourceUnchanged(source, t) == source
\* manager.py:76-78, 100  update_source(source_id, last_fetched=utcnow()): the new record
MarkedSource(source, t) == [source EXCEPT !.last_fetched = t]

\* the modelled sources: odd ids are feeds, even ids are scraped pages
SourceTypeOf(id) == IF id % 2 = 1 THEN "rss" ELSE "web"

\* ----------------------------------------------------------- FetchOrchestrator
\* orchestrator.py:20-23  self.fetchers, in priority order
fetchers == <<"RSSFetcher", "WebScraper">>

\* rss.py:22-24, scraper.py:20-22  can_handle
can_handle(fetcher, source) ==
    IF fetcher = "RSSFetcher" THEN source.source_type \in {"rss", "atom"}
    ELSE source.source_type = "web"

\* orchestrator.py:30-35  _get_fetcher: first fetcher that can handle the source
get_fetcher(source) ==
    IF \E k \in 1..Len(fetchers) : can_handle(fetchers[k], source)
    THEN fetchers[CHOOSE k \in 1..Len(fetchers) :
                     /\ can_handle(fetchers[k], source)
                     /\ \A j \in 1..(k - 1) : ~can_handle(fetchers[j], source)]
    ELSE NULL

\* orchestrator.py:37-45; rss.py:26-53; scraper.py:24-55  what fetch_source can
\* return: the parsed entries, or [] (no fetcher, or an error caught by the adapter)
FetchOutputs(source) ==
    IF get_fetcher(source) = NULL THEN {<<>>} ELSE {feed[source.id], <<>>}

TaskStates == {"waiting", "fetching", "mark_load", "mark_save", "done", "failed"}
MarkStates == {"mark_load", "mark_save"}

\* orchestrator.py:82  one coroutine per source
NewTask(source) == [source |-> source, st |-> "waiting", articles |-> <<>>]

NoFrame == [existing_articles |-> <<>>, new_articles |-> <<>>]
NoPrev == [mode |-> "none", empty |-> {}]
NoArgs == [kind |-> NULL, force |-> FALSE, started |-> 0, prior |-> NoPrev]
NoMk == [source |-> NoSource, items |-> <<>>]
\* a task of p is inside the synchronous mark_fetched call: the event loop of p
\* runs nothing else until it returns
InMark(p) == \E i \in 1..Len(tasks[p]) : tasks[p][i].st \in MarkStates

\* orchestrator.py:72-75  tasks holding a semaphore permit
Guarded(p) == {i \in 1..Len(tasks[p]) : tasks[p][i].st \in {"fetching"} \cup MarkStates}

SemaphoreLockedNever(p) == FALSE
\* orchestrator.py:72, 75  asyncio.Semaphore.locked(): no free permit
SemaphoreLocked(p) == semaphore[p] = 0

RECURSIVE FlattenAll(_)
FlattenAll(results) ==
    IF results = <<>> THEN <<>> ELSE Head(results).articles \o FlattenAll(Tail(results))

RECURSIVE FlattenReversed(_)
FlattenReversed(results) ==
    IF results = <<>> THEN <<>>
    ELSE FlattenReversed(Tail(results))
         \o (IF Head(results).st = "done" THEN Head(results).articles ELSE <<>>)

\* orchestrator.py:85-91  flatten the results that are lists, in task order
RECURSIVE Flatten(_)
Flatten(results) ==
    IF results = <<>> THEN <<>>
    ELSE (IF Head(results).st = "done" THEN Head(results).articles ELSE <<>>)
         \o Flatten(Tail(results))

AllTodayOnlyNew(existing_articles, new_articles) == new_articles
\* orchestrator.py:102  all_today = existing_articles + new_articles
AllToday(existing_articles, new_articles) == existing_articles \o new_articles

\* orchestrator.py:101  if new_articles:
ShouldSave(new_articles) == new_articles # <<>>

\* the history of the invocation that ends, kept while the clock stands still.
\* mode: "default" after a fetch_all(force=False) that returned within the hour it
\* began and with every task completed, "default_failed" after one that returned
\* with a failed task; empty: the sources whose fetch returned no entries
Finished(p) ==
    IF pc[p] = "returned" /\ args[p].kind = "fetch_all" /\ ~args[p].force
          /\ args[p].started = now
    THEN [mode |-> IF \E i \in 1..Len(tasks[p]) : tasks[p][i].st = "failed"
                   THEN "default_failed" ELSE "default",
          empty |-> {tasks[p][i].source.id :
                       i \in {j \in 1..Len(tasks[p]) : tasks[p][j].articles = <<>>}}]
    ELSE NoPrev

\* orchestrator.py:47-69  fetch_all(sources=None, force): select the sources, fan out
FetchAll(p, force) ==
    /\ pc[p] = "idle"
    /\ LET sources == IF force THEN list_sources(registry)
                      ELSE get_sources_to_fetch(registry, now)
       IN /\ tasks' = [tasks EXCEPT ![p] = [k \in 1..Len(sources) |-> NewTask(sources[k])]]
          /\ pc' = [pc EXCEPT ![p] = IF sources = <<>> THEN "returned" ELSE "gather"]
    /\ args' = [args EXCEPT ![p] = [kind |-> "fetch_all", force |-> force, started |-> now,
                                    prior |-> prev[p]]]
    /\ semaphore' = [semaphore EXCEPT ![p] = max_concurrent_fetches]
    /\ UNCHANGED <<mk, frame, registry, partition, envvars, prev,
                   returned_ids, dvars, xvars, undecodable>>

GivenSourcesEnabled(sources) == list_sources(sources)
\* orchestrator.py:61  if sources is None: a list the caller gives is used as it is
GivenSources(sources) == sources

\* orchestrator.py:107-114  fetch_single(source_id): fetch_all([source], force=True)
FetchSingle(p, source_id) ==
    /\ pc[p] = "idle"
    /\ LET source == get_by_id(registry, source_id)
           sources == IF source = NoSource THEN <<>> ELSE GivenSources(<<source>>)
       IN /\ tasks' = [tasks EXCEPT ![p] = [k \in 1..Len(sources) |-> NewTask(sources[k])]]
          /\ pc' = [pc EXCEPT ![p] = IF sources = <<>> THEN "returned" ELSE "gather"]
    /\ args' = [args EXCEPT ![p] = [kind |-> "fetch_single", force |-> TRUE, started |-> now,
                                    prior |-> prev[p]]]
    /\ semaphore' = [semaphore EXCEPT ![p] = max_concurrent_fetches]
    /\ UNCHANGED <<mk, frame, registry, partition, envvars, prev,
                   returned_ids, dvars, xvars, undecodable>>

\* orchestrator.py:74-76  async with semaphore: take a permit, start the adapter fetch
TaskAcquire(p, i) ==
    /\ pc[p] = "gather" /\ ~InMark(p)
    /\ tasks[p][i].st = "waiting"
    /\ ~SemaphoreLocked(p)
    /\ semaphore' = [semaphore EXCEPT ![p] = @ - 1]
    /\ tasks' = [tasks EXCEPT ![p][i].st = "fetching"]
    /\ UNCHANGED <<pc, args, mk, frame, registry, partition, envvars, prev,
                   returned_ids, dvars, xvars, undecodable>>

\* orchestrator.py:37-45, 76-78; manager.py:72-74  the adapter returns `out`, then
\* mark_fetched begins: update_source loads the registry and looks the source up
TaskFetched(p, i, out) ==
    /\ pc[p] = "gather" /\ ~InMark(p)
    /\ tasks[p][i].st = "fetching"
    /\ LET source == get_by_id(registry, tasks[p][i].source.id)
       IN IF source = NoSource
          THEN /\ tasks' = [tasks EXCEPT ![p][i].st = "done", ![p][i].articles = out]
               /\ semaphore' = [semaphore EXCEPT ![p] = @ + 1]
               /\ UNCHANGED mk
          ELSE /\ tasks' = [tasks EXCEPT ![p][i].st = "mark_load", ![p][i].articles = out]
               /\ mk' = [mk EXCEPT ![p] = [source |-> source, items |-> <<>>]]
               /\ UNCHANGED semaphore
    /\ UNCHANGED <<pc, args, frame, registry, partition, envvars, prev,
                   returned_ids, dvars, xvars, undecodable>>

\* manager.py:81; json_store.py:83  JsonStore.update loads the items again
MarkLoad(p, i) ==
    /\ pc[p] = "gather"
    /\ tasks[p][i].st = "mark_load"
    /\ IF get_by_id(registry, tasks[p][i].source.id) = NoSource
       THEN /\ tasks' = [tasks EXCEPT ![p][i].st = "done"]
            /\ semaphore' = [semaphore EXCEPT ![p] = @ + 1]
            /\ mk' = [mk EXCEPT ![p] = NoMk]
       ELSE /\ tasks' = [tasks EXCEPT ![p][i].st = "mark_save"]
            /\ mk' = [mk EXCEPT ![p].items = registry]
            /\ UNCHANGED semaphore
    /\ UNCHANGED <<pc, args, frame, registry, partition, envvars, prev,
                   returned_ids, dvars, xvars, undecodable>>

\* json_store.py:84-88; orchestrator.py:79  JsonStore.update saves the items with the
\* record replaced; mark_fetched returns, the task returns its articles
MarkSave(p, i) ==
    /\ pc[p] = "gather"
    /\ tasks[p][i].st = "mark_save"
    /\ registry' = UpdatedItems(mk[p].items, tasks[p][i].source.id,
                                MarkedSource(mk[p].source, now))
    /\ tasks' = [tasks EXCEPT ![p][i].st = "done"]
    /\ semaphore' = [semaphore EXCEPT ![p] = @ + 1]
    /\ mk' = [mk EXCEPT ![p] = NoMk]
    /\ UNCHANGED <<pc, args, frame, partition, envvars, prev, returned_ids, dvars, xvars, undecodable>>

LeakedOnError(permits) == permits
\* orchestrator.py:75  async with semaphore: leaving the block on an exception
\* releases the permit
ReleasedOnError(permits) == permits + 1

\* manager.py:81; json_store.py:28-42  a registry file operation of mark_fetched
\* raises (OSError): the task ends with the exception, its permit released
MarkError(p, i) ==
    /\ pc[p] = "gather"
    /\ tasks[p][i].st \in MarkStates
    /\ tasks' = [tasks EXCEPT ![p][i].st = "failed"]
    /\ semaphore' = [semaphore EXCEPT ![p] = ReleasedOnError(@)]
    /\ mk' = [mk EXCEPT ![p] = NoMk]
    /\ UNCHANGED <<pc, args, frame, registry, partition, envvars, prev,
                   returned_ids, dvars, xvars, undecodable>>

\* cli.py:131-147; manager.py:93-96  the `source disable` command of another process:
\* update_source(source_id, enabled=False), taken as one step
DisableSource(source_id) ==
    /\ get_by_id(registry, source_id) # NoSource
    /\ get_by_id(registry, source_id).enabled
    /\ registry' = UpdatedItems(registry, source_id,
                                [get_by_id(registry, source_id) EXCEPT !.enabled = FALSE])
    /\ UNCHANGED <<pc, args, tasks, semaphore, mk, frame, partition, envvars, prev,
                   returned_ids, dvars, xvars, undecodable>>

\* json_store.py:39-49  JsonStore.load of today's article file: text that is not JSON
\* is caught (json.JSONDecodeError) and read as no items
LoadedPartition == IF undecodable THEN <<>> ELSE partition

\* orchestrator.py:83-98  gather is complete: flatten, load today's partition and
\* deduplicate
GatherLoad(p) ==
    /\ pc[p] = "gather"
    /\ \A i \in 1..Len(tasks[p]) : tasks[p][i].st \in {"done", "failed"}
    /\ LET all_articles == Flatten(tasks[p])
           existing_articles == LoadedPartition
           new_articles == deduplicate(all_articles, existing_articles)
       IN /\ frame' = [frame EXCEPT ![p] = [existing_articles |-> existing_articles,
                                            new_articles |-> new_articles]]
          /\ pc' = [pc EXCEPT ![p] = IF ShouldSave(new_articles) THEN "save" ELSE "returned"]
    /\ UNCHANGED <<args, tasks, semaphore, mk, registry, partition, envvars,
                   prev, returned_ids, dvars, xvars, undecodable>>

\* orchestrator.py:101-105  save existing + new to today's partition, return the new
SavePartition(p) ==
    /\ pc[p] = "save"
    /\ partition' = AllToday(frame[p].existing_articles, frame[p].new_articles)
    /\ undecodable' = FALSE
    /\ pc' = [pc EXCEPT ![p] = "returned"]
    /\ UNCHANGED <<args, tasks, semaphore, mk, frame, registry, envvars, prev,
                   returned_ids, dvars, xvars>>

\* orchestrator.py:95, 103; json_store.py:39-65  loading or saving the partition
\* raises (OSError): nothing catches it, fetch_all raises
StoreError(p) ==
    /\ \/ /\ pc[p] = "gather"
          /\ \A i \in 1..Len(tasks[p]) : tasks[p][i].st \in {"done", "failed"}
       \/ pc[p] = "save"
    /\ pc' = [pc EXCEPT ![p] = "raised"]
    /\ UNCHANGED <<args, tasks, semaphore, mk, frame, registry, partition, envvars,
                   prev, returned_ids, dvars, xvars, undecodable>>

\* json_store.py:61-64  the process is killed inside write_text, after the file was
\* truncated and before the JSON text is complete; the command can be run again
KillDuringSave(p) ==
    /\ pc[p] = "save"
    /\ undecodable' = TRUE
    /\ partition' = <<>>
    /\ pc' = [pc EXCEPT ![p] = "idle"]
    /\ tasks' = [tasks EXCEPT ![p] = <<>>]
    /\ args' = [args EXCEPT ![p] = NoArgs]
    /\ frame' = [frame EXCEPT ![p] = NoFrame]
    /\ UNCHANGED <<semaphore, mk, registry, envvars, prev, returned_ids, dvars, xvars>>

\* cli.py:210-212  the caller has the result (or the exception); the process is free
Return(p) ==
    /\ pc[p] \in {"returned", "raised"}
    /\ prev' = [prev EXCEPT ![p] = Finished(p)]
    /\ returned_ids' =
         IF pc[p] = "returned"
         THEN returned_ids \cup
              {frame[p].new_articles[k].id : k \in 1..Len(frame[p].new_articles)}
         ELSE returned_ids
    /\ pc' = [pc EXCEPT ![p] = "idle"]
    /\ tasks' = [tasks EXCEPT ![p] = <<>>]
    /\ args' = [args EXCEPT ![p] = NoArgs]
    /\ frame' = [frame EXCEPT ![p] = NoFrame]
    /\ UNCHANGED <<semaphore, mk, registry, partition, envvars, dvars, xvars, undecodable>>

\* the clock advances one hour
Tick ==
    /\ now < MaxTime
    /\ now' = now + 1
    /\ prev' = [p \in Procs |-> NoPrev]
    /\ UNCHANGED <<procs, feed, registry, partition, procvars, returned_ids, dvars, xvars, undecodable>>

\* ------------------------------------------------- Source.should_fetch alone
\* the intervals tried: none, one and two hours, and a day
SfIntervals == {0, 1, 2, 24}
SfTimes == 0..MaxClock

ShouldIdle ==
    /\ sf_source = NoSource /\ sf_now = 0 /\ sf_result = FALSE /\ sf_pc = "idle"

ShouldInit ==
    /\ sf_source \in {Source(1, e, l, h, "rss") :
                         e \in BOOLEAN, l \in {Never} \cup SfTimes, h \in SfIntervals}
    /\ sf_now \in SfTimes
    /\ sf_result = FALSE
    /\ sf_pc = "call"

\* source.py:49-56  one call of Source.should_fetch
ShouldFetchCall ==
    /\ sf_pc = "call"
    /\ sf_result' = should_fetch(sf_source, sf_now)
    /\ sf_pc' = "done"
    /\ UNCHANGED <<sf_source, sf_now, dvars, ovars, sumvars>>

\* ------------------------------------------------------------------ Summarizer
Dates == {1, 2}                  \* target_date values, as day numbers
NoSummary == [nothing |-> TRUE]  \* None where a DailySummary is expected

\* article.py:10-31  the fields of Article the Summarizer reads, and the articles
\* tried: without and with a publication time, fetched before and after it
SumArticle ==
    {[id |-> "u1", published_at |-> Never, fetched_at |-> 1],
     [id |-> "u2", published_at |-> 2, fetched_at |-> 3],
     [id |-> "u1", published_at |-> Never, fetched_at |-> 3],
     [id |-> "u2", published_at |-> 2, fetched_at |-> 1]}

\* JSON values as json.loads returns them, and the absence of a key
JMissing == [missing |-> TRUE]
JNull == [null |-> TRUE]
JNum == [num |-> 7]
JStr(x) == [str |-> x]
JList(items) == [list |-> items]
JObj(members) == [obj |-> members]
IsStr(v) == DOMAIN v = {"str"}
IsList(v) == DOMAIN v = {"list"}
IsObj(v) == DOMAIN v = {"obj"}

\* the lines a response text is made of
LFence == [line |-> "[fence]"]          \* a line of three backquotes
LFenceJson == [line |-> "[fence]json"]  \* three backquotes and the word json
LBlank == [line |-> ""]
LProse == [line |-> "Here is the summary"]
LJson(v) == [json |-> v]
IsFenceLine(l) == l \in {LFence, LFenceJson}

\* the story objects and the members a response object is tried with
StoryFull == JObj([title |-> JStr("T"), source |-> JStr("src"), brief |-> JStr("b"),
                   url |-> JStr("http")])
StoryNoUrl == JObj([title |-> JStr("T"), source |-> JMissing, brief |-> JStr("b"),
                    url |-> JMissing])
StoryNullTitle == JObj([title |-> JNull, source |-> JStr("src"), brief |-> JStr("b"),
                        url |-> JStr("http")])
SummaryMembers == {JMissing, JStr("S"), JNull}
TopicMembers == {JMissing, JList(<<JStr("k")>>), JNull}
StoriesMembers == {JMissing, JNull, JList(<<StoryFull>>), JList(<<StoryNoUrl>>),
                   JList(<<StoryNullTitle>>), JList(<<JStr("x")>>)}
JsonObjects == {JObj(m) : m \in [summary : SummaryMembers, key_topics : TopicMembers,
                                 notable_stories : StoriesMembers]}
JsonValues == JsonObjects \cup {JList(<<>>), JNum, JStr("S")}
Payloads == {LJson(v) : v \in JsonValues} \cup {LProse}
\* a bare payload, a payload in a code fence, a payload followed by a stray fence,
\* and the empty text
Responses ==
    {<<l>> : l \in Payloads} \cup {<<LFenceJson, l, LFence>> : l \in Payloads}
        \cup {<<LBlank, l, LFence>> : l \in Payloads} \cup {<<>>}

\* str.strip(): leading and trailing blank lines go
Strip(text) ==
    LET filled == {k \in 1..Len(text) : text[k] # LBlank}
    IN IF filled = {} THEN <<>>
       ELSE SubSeq(text, CHOOSE k \in filled : \A j \in filled : k <= j,
                         CHOOSE k \in filled : \A j \in filled : k >= j)

\* summarizer.py:138-143  text = response_text.strip(), code-fence lines removed when
\* the text starts with one
StripFences(response_text) ==
    LET text == Strip(response_text)
        NotFence(l) == ~IsFenceLine(l)
    IN IF text # <<>> /\ IsFenceLine(text[1]) THEN Strip(SelectSeq(text, NotFence))
       ELSE text

JSONDecodeError == [error |-> "JSONDecodeError"]
\* summarizer.py:146  json.loads(text): one JSON value with blank space around it
json_loads(text) ==
    LET filled == {k \in 1..Len(text) : text[k] # LBlank}
    IN IF Cardinality(filled) = 1 /\ \A k \in filled : DOMAIN text[k] = {"json"}
       THEN [data |-> text[CHOOSE k \in filled : TRUE].json]
       ELSE JSONDecodeError

\* summarizer.py:152-155  story.get(key, "")
StoryGet(story, key) == IF story.obj[key] = JMissing THEN JStr("") ELSE story.obj[key]

StoryKeys == {"title", "source", "brief", "url"}
\* summarizer.py:149-157  the loop over data.get("notable_stories", []) completes:
\* the value is a list of objects whose fields, where present, are strings
StoriesLoopCompletes(member) ==
    \/ member = JMissing
    \/ /\ IsList(member)
       /\ \A k \in 1..Len(member.list) :
             /\ IsObj(member.list[k])
             /\ \A key \in StoryKeys : IsStr(StoryGet(member.list[k], key))
    \/ member = JStr("")

\* summarizer.py:148-157  notable_stories after the loop
NotableStories(member) ==
    IF IsList(member)
    THEN [k \in 1..Len(member.list) |->
            [key \in StoryKeys |-> StoryGet(member.list[k], key).str]]
    ELSE <<>>

RawTextStripped(response_text) == [text |-> StripFences(response_text)]
\* summarizer.py:164, 178  response_text itself as the summary text
RawText(response_text) == [text |-> response_text]
\* summarizer.py:164  data.get("summary", response_text)
SummaryText(data, response_text) ==
    IF data.obj.summary = JMissing THEN RawText(response_text) ELSE data.obj.summary

\* summarizer.py:165  data.get("key_topics", [])
KeyTopics(data) ==
    IF data.obj.key_topics = JMissing THEN JList(<<>>) ELSE data.obj.key_topics

\* summary.py:18-45  DailySummary validates: summary_text is a str, key_topics a list
\* of str
Validates(summary_text, key_topics) ==
    /\ DOMAIN summary_text \in {{"str"}, {"text"}}
    /\ IsList(key_topics)
    /\ \A k \in 1..Len(key_topics.list) : IsStr(key_topics.list[k])

ArticleIdsReversed(articles) == [k \in 1..Len(articles) |-> articles[Len(articles) + 1 - k].id]
\* summarizer.py:163, 177  [a.id for a in articles]
ArticleIds(articles) == [k \in 1..Len(articles) |-> articles[k].id]

\* summary.py:18-45  the fields of DailySummary the Summarizer sets
DailySummary(target_date, articles, summary_text, key_topics, notable_stories) ==
    [date |-> target_date, article_count |-> Len(articles),
     article_ids |-> ArticleIds(articles), summary_text |-> summary_text,
     key_topics |-> key_topics, notable_stories |-> notable_stories]

Raised(exception) == [raised |-> exception]
DidRaise(outcome) == DOMAIN outcome = {"raised"}

\* summarizer.py:128-183  Summarizer._parse_response: the DailySummary, or the
\* exception that leaves the method
parse_response(response_text, articles, target_date) ==
    LET parsed == json_loads(StripFences(response_text))
    IN IF parsed = JSONDecodeError
       THEN DailySummary(target_date, articles, RawText(response_text), <<>>, <<>>)
       ELSE IF ~IsObj(parsed.data) THEN Raised("AttributeError")
       ELSE IF ~StoriesLoopCompletes(parsed.data.obj.notable_stories)
       THEN Raised("TypeError")
       ELSE IF ~Validates(SummaryText(parsed.data, response_text), KeyTopics(parsed.data))
       THEN Raised("ValidationError")
       ELSE DailySummary(target_date, articles,
                         SummaryText(parsed.data, response_text),
                         [k \in 1..Len(KeyTopics(parsed.data).list) |->
                             KeyTopics(parsed.data).list[k].str],
                         NotableStories(parsed.data.obj.notable_stories))

\* summarizer.py:84  key=lambda a: a.published_at or a.fetched_at
SortKeyFetchedFirst(a) == a.fetched_at
SortKey(a) == IF a.published_at # Never THEN a.published_at ELSE a.fetched_at

\* summarizer.py:82-86  sorted(articles, key=..., reverse=True): latest first, articles
\* of equal key in their input order
RECURSIVE SortRecent(_)
SortRecent(articles) ==
    IF articles = <<>> THEN <<>>
    ELSE LET rest == SortRecent(Tail(articles))
             before == Cardinality({k \in 1..Len(rest) :
                                      SortKey(rest[k]) > SortKey(Head(articles))})
         IN SubSeq(rest, 1, before) \o <<Head(articles)>>
                \o SubSeq(rest, before + 1, Len(rest))

\* summarizer.py:80-86  the articles kept for the prompt
Capped(articles) ==
    IF Len(articles) > max_articles_per_summary
    THEN SubSeq(SortRecent(articles), 1, max_articles_per_summary)
    ELSE articles

\* summarizer.py:105-126  _build_prompt: one block per article, in list order, with
\* the article's URL (which its id stands for)
build_prompt(articles) == [k \in 1..Len(articles) |-> [block |-> k, url |-> articles[k].id]]

NothingToSummarizeNever(articles) == FALSE
\* summarizer.py:75  if not articles
NothingToSummarize(articles) == articles = <<>>

NoSumArgs == [target_date |-> 0, given |-> FALSE, articles |-> <<>>]
NoOtherArgs == [target_date |-> 0, articles |-> <<>>, during |-> "idle"]

\* client.py:21  stop=stop_after_attempt(3)
stop_after_attempt == 3
\* client.py:22  wait=wait_exponential(multiplier=1, min=4, max=30)
multiplier == 1
wait_min == 4
wait_max == 30

\* client.py:21  stop_after_attempt: no further attempt once attempt_number reaches it
ShouldStop(attempt_number) == attempt_number >= stop_after_attempt

\* client.py:22  wait_exponential: multiplier * 2^(attempt_number - 1), kept within
\* min and max
wait_exponential(attempt_number) ==
    LET result == multiplier * 2 ^ (attempt_number - 1)
        low == IF wait_min > 0 THEN wait_min ELSE 0
        capped == IF result < wait_max THEN result ELSE wait_max
    IN IF capped > low THEN capped ELSE low

SavedSummariesAppended(stored, summary) == Append(stored, summary)
\* summarizer.py:101  summary_store.save(target_date, [summary]): the items of the file
SavedSummaries(stored, summary) == <<summary>>

\* summarizer.py:69-89  generate_summary(target_date, articles) up to the request:
\* articles=None (given = FALSE) loads the stored articles of the date
SumCall(target_date, given, articles) ==
    /\ s_pc # "generate" /\ s_calls < MaxCalls
    /\ LET loaded == IF given THEN articles ELSE article_store[target_date]
       IN /\ s_args' = [target_date |-> target_date, given |-> given, articles |-> loaded]
          /\ s_kept' = IF NothingToSummarize(loaded) THEN <<>> ELSE Capped(loaded)
          /\ s_prompt' = IF NothingToSummarize(loaded) THEN <<>>
                         ELSE build_prompt(Capped(loaded))
          /\ s_pc' = IF NothingToSummarize(loaded) THEN "returned" ELSE "generate"
          /\ requests' = IF NothingToSummarize(loaded) THEN requests ELSE requests + 1
          /\ attempt' = IF NothingToSummarize(loaded) THEN 0 ELSE 1
    /\ waits' = <<>>
    /\ s_result' = NoSummary
    /\ s_response' = <<>>
    /\ s_calls' = s_calls + 1
    /\ UNCHANGED <<article_store, summary_store, g_result, s_latest, saver, rivalvars,
                   dvars, ovars, sfvars>>

\* summarizer.py:92-103  the client returns response_text: parse, save, return
SumGenerate(response_text) ==
    /\ s_pc = "generate"
    /\ s_response' = response_text
    /\ LET outcome == parse_response(response_text, s_kept, s_args.target_date)
       IN /\ s_result' = outcome
          /\ IF DidRaise(outcome)
             THEN /\ s_pc' = "raised"
                  /\ UNCHANGED <<summary_store, s_latest, saver>>
             ELSE /\ s_pc' = "returned"
                  /\ summary_store' =
                        [summary_store EXCEPT ![s_args.target_date] =
                            SavedSummaries(@, outcome)]
                  /\ s_latest' = [s_latest EXCEPT ![s_args.target_date] = outcome]
                  /\ saver' = [saver EXCEPT ![s_args.target_date] = "main"]
    /\ UNCHANGED <<article_store, s_args, s_kept, s_prompt, s_calls, requests, g_result,
                   clientvars, rivalvars, dvars, ovars, sfvars>>

\* client.py:20-23, 50  the request of this attempt raises and the stop condition
\* does not hold: the decorator sleeps the wait and calls generate again, which
\* issues the next request
ClientRetry ==
    /\ s_pc = "generate"
    /\ ~ShouldStop(attempt)
    /\ waits' = Append(waits, wait_exponential(attempt))
    /\ attempt' = attempt + 1
    /\ requests' = requests + 1
    /\ UNCHANGED <<article_store, summary_store, s_pc, s_args, s_kept, s_prompt, s_response,
                   s_result, s_calls, g_result, s_latest, saver, rivalvars,
                   dvars, ovars, sfvars>>

SumClientErrorSavesEmpty ==
    /\ s_pc = "generate"
    /\ ShouldStop(attempt)
    /\ s_pc' = "raised"
    /\ s_result' = Raised("RetryError")
    /\ summary_store' = [summary_store EXCEPT ![s_args.target_date] = <<>>]
    /\ UNCHANGED <<article_store, s_args, s_kept, s_prompt, s_response, s_calls,
                   requests, g_result, s_latest, saver, clientvars, rivalvars,
                   dvars, ovars, sfvars>>

\* client.py:20-23; summarizer.py:92-95  the request of the last attempt raises: the
\* decorator (no reraise) raises RetryError, which leaves client.generate and
\* generate_summary
SumClientError ==
    /\ s_pc = "generate"
    /\ ShouldStop(attempt)
    /\ s_pc' = "raised"
    /\ s_result' = Raised("RetryError")
    /\ UNCHANGED <<article_store, summary_store, s_args, s_kept, s_prompt, s_response, s_calls,
                   requests, g_result, s_latest, saver, clientvars, rivalvars,
                   dvars, ovars, sfvars>>

\* summarizer.py:185-196  get_summary(target_date)
GetSummary(target_date) ==
    /\ s_pc # "generate"
    /\ LET summaries == summary_store[target_date]
       IN g_result' = IF summaries # <<>> THEN summaries[1] ELSE NoSummary
    /\ UNCHANGED <<article_store, summary_store, s_pc, s_args, s_kept, s_prompt, s_response,
                   s_result, s_calls, requests, s_latest, saver, clientvars, rivalvars,
                   dvars, ovars, sfvars>>

\* summarizer.py:69-95  generate_summary(target_date, articles) of a second process,
\* up to its request; `during` keeps where the first process stood at that moment
OtherCall(target_date, articles) ==
    /\ o_pc = "idle"
    /\ o_args' = [target_date |-> target_date, articles |-> articles, during |-> s_pc]
    /\ o_pc' = IF NothingToSummarize(articles) THEN "returned" ELSE "generate"
    /\ requests' = IF NothingToSummarize(articles) THEN requests ELSE requests + 1
    /\ o_result' = NoSummary
    /\ UNCHANGED <<article_store, summary_store, s_pc, s_args, s_kept, s_prompt, s_response,
                   s_result, s_calls, g_result, s_latest, saver, clientvars,
                   dvars, ovars, sfvars>>

\* summarizer.py:92-103; json_store.py:51-65  the second process's client returns
\* response_text: parse, save (one locked write of the whole file), return
OtherGenerate(response_text) ==
    /\ o_pc = "generate"
    /\ LET outcome == parse_response(response_text, Capped(o_args.articles),
                                     o_args.target_date)
       IN /\ o_result' = outcome
          /\ IF DidRaise(outcome)
             THEN /\ o_pc' = "raised"
                  /\ UNCHANGED <<summary_store, s_latest, saver>>
             ELSE /\ o_pc' = "returned"
                  /\ summary_store' =
                        [summary_store EXCEPT ![o_args.target_date] =
                            SavedSummaries(@, outcome)]
                  /\ s_latest' = [s_latest EXCEPT ![o_args.target_date] = outcome]
                  /\ saver' = [saver EXCEPT ![o_args.target_date] = "other"]
    /\ UNCHANGED <<article_store, s_pc, s_args, s_kept, s_prompt, s_response, s_result,
                   s_calls, requests, g_result, o_args, clientvars, dvars, ovars, sfvars>>

\* summarizer.py:92-95  the second process's client.generate raises
OtherClientError ==
    /\ o_pc = "generate"
    /\ o_pc' = "raised"
    /\ o_result' = Raised("RetryError")
    /\ UNCHANGED <<article_store, summary_store, s_pc, s_args, s_kept, s_prompt, s_response,
                   s_result, s_calls, requests, g_result, s_latest, saver, o_args,
                   clientvars, dvars, ovars, sfvars>>

\* the stored articles of the modelled dates: none on day 1, three on day 2
StoredArticles ==
    [d \in Dates |->
        IF d = 1 THEN <<>>
        ELSE <<[id |-> "u1", published_at |-> Never, fetched_at |-> 1],
               [id |-> "u2", published_at |-> 2, fetched_at |-> 3],
               [id |-> "u1", published_at |-> Never, fetched_at |-> 3]>>]

SumIdle ==
    /\ article_store = StoredArticles
    /\ summary_store = [d \in Dates |-> <<>>]
    /\ s_pc = "idle" /\ s_args = NoSumArgs /\ s_kept = <<>> /\ s_prompt = <<>>
    /\ s_response = <<>>
    /\ s_result = NoSummary /\ s_calls = 0 /\ requests = 0 /\ g_result = NoSummary
    /\ s_latest = [d \in Dates |-> NoSummary]
    /\ attempt = 0 /\ waits = <<>>
    /\ o_pc = "idle" /\ o_args = NoOtherArgs /\ o_result = NoSummary
    /\ saver = [d \in Dates |-> "none"]

RestIdle == ShouldIdle /\ SumIdle

\* ------------------------------------------- specification of deduplicate alone
DedupInit ==
    /\ d_new \in BSeq(Article, MaxNew)
    /\ d_existing \in BSeq(Article, MaxExisting)
    /\ d_result = <<>>
    /\ d_pc = "call"

DedupIdle == d_new = <<>> /\ d_existing = <<>> /\ d_result = <<>> /\ d_pc = "idle"

\* what is on disk and the clock before any invocation
StoreInit ==
    /\ \E h \in Intervals :
          registry \in {r \in [SourceIds -> {Source(k, e, Never, h, SourceTypeOf(k)) :
                                                k \in SourceIds, e \in BOOLEAN}] :
                           \A k \in SourceIds : r[k].id = k}
    /\ feed \in {f \in [SourceIds -> UNION {FeedsOf(k) : k \in SourceIds}] :
                    \A k \in SourceIds : f[k] \in FeedsOf(k)}
    /\ partition = <<>>
    /\ undecodable = FALSE
    /\ now = 0

ProcInit ==
    /\ pc = [p \in Procs |-> "idle"]
    /\ args = [p \in Procs |-> NoArgs]
    /\ tasks = [p \in Procs |-> <<>>]
    /\ semaphore = [p \in Procs |-> max_concurrent_fetches]
    /\ mk = [p \in Procs |-> NoMk]
    /\ frame = [p \in Procs |-> NoFrame]
    /\ prev = [p \in Procs |-> NoPrev]
    /\ returned_ids = {}

OrchIdle ==
    /\ registry = <<>>
    /\ partition = <<>>
    /\ undecodable = FALSE
    /\ feed = [k \in SourceIds |-> <<>>]
    /\ now = 0
    /\ procs = {}
    /\ ProcInit

DedupCall ==
    /\ d_pc = "call"
    /\ d_result' = deduplicate(d_new, d_existing)
    /\ d_pc' = "done"
    /\ UNCHANGED <<d_new, d_existing, ovars, xvars>>

\* the arguments of one call, with the pipeline at rest
InitDedup == DedupInit /\ OrchIdle /\ RestIdle

SpecDedup == InitDedup /\ [][DedupCall]_vars

\* ---------------------------------------------- specifications of the pipeline
Init == DedupIdle /\ StoreInit /\ ProcInit /\ procs = {"p1"} /\ RestIdle

\* two commands started together on a registry of enabled, never fetched sources
InitConc ==
    /\ DedupIdle /\ StoreInit /\ ProcInit /\ procs = Procs /\ RestIdle
    /\ \A k \in SourceIds : registry[k].enabled /\ registry[k].fetch_interval_hours = 1

Next ==
    \/ \E p \in procs, force \in BOOLEAN : FetchAll(p, force)
    \/ \E p \in procs, source_id \in SourceIds : FetchSingle(p, source_id)
    \/ \E p \in procs : \E i \in 1..Len(tasks[p]) : TaskAcquire(p, i)
    \/ \E p \in procs : \E i \in 1..Len(tasks[p]) :
          \E out \in FetchOutputs(tasks[p][i].source) : TaskFetched(p, i, out)
    \/ \E p \in procs : \E i \in 1..Len(tasks[p]) : MarkLoad(p, i)
    \/ \E p \in procs : \E i \in 1..Len(tasks[p]) : MarkSave(p, i)
    \/ \E p \in procs : \E i \in 1..Len(tasks[p]) : MarkError(p, i)
    \/ \E p \in procs : GatherLoad(p)
    \/ \E p \in procs : SavePartition(p)
    \/ \E p \in procs : StoreError(p)
    \/ \E p \in procs : Return(p)
    \/ Tick

\* each process runs one command and exits; the clock stands still meanwhile
NextConc ==
    \/ \E p \in procs, force \in BOOLEAN : FetchAll(p, force)
    \/ \E p \in procs, source_id \in SourceIds : FetchSingle(p, source_id)
    \/ \E p \in procs : \E i \in 1..Len(tasks[p]) : TaskAcquire(p, i)
    \/ \E p \in procs : \E i \in 1..Len(tasks[p]) :
          \E out \in FetchOutputs(tasks[p][i].source) : TaskFetched(p, i, out)
    \/ \E p \in procs : \E i \in 1..Len(tasks[p]) : MarkLoad(p, i)
    \/ \E p \in procs : \E i \in 1..Len(tasks[p]) : MarkSave(p, i)
    \/ \E p \in procs : \E i \in 1..Len(tasks[p]) : MarkError(p, i)
    \/ \E p \in procs : GatherLoad(p)
    \/ \E p \in procs : SavePartition(p)
    \/ \E p \in procs : StoreError(p)

\* one process: invocations follow one another
Spec == Init /\ [][Next]_vars

\* two processes: invocations overlap
SpecConc == InitConc /\ [][NextConc]_vars

\* one command at a time on a registry of enabled sources, where a run can be killed
\* while it writes the article file
InitTorn ==
    /\ DedupIdle /\ StoreInit /\ ProcInit /\ procs = {"p1"} /\ RestIdle
    /\ \A k \in SourceIds : registry[k].enabled /\ registry[k].fetch_interval_hours = 0

NextTorn ==
    \/ \E p \in procs, force \in BOOLEAN : FetchAll(p, force)
    \/ \E p \in procs : \E i \in 1..Len(tasks[p]) : TaskAcquire(p, i)
    \/ \E p \in procs : \E i \in 1..Len(tasks[p]) :
          \E out \in FetchOutputs(tasks[p][i].source) : TaskFetched(p, i, out)
    \/ \E p \in procs : \E i \in 1..Len(tasks[p]) : MarkLoad(p, i)
    \/ \E p \in procs : \E i \in 1..Len(tasks[p]) : MarkSave(p, i)
    \/ \E p \in procs : GatherLoad(p)
    \/ \E p \in procs : SavePartition(p)
    \/ \E p \in procs : StoreError(p)
    \/ \E p \in procs : KillDuringSave(p)
    \/ \E p \in procs : Return(p)

SpecTorn == InitTorn /\ [][NextTorn]_vars

\* ---------------------------------------------- fetch_all under fair scheduling
\* a step of a task of p: the event loop runs every task that can go on, and every
\* adapter fetch returns
TaskStep(p) ==
    \E i \in 1..Len(tasks[p]) :
        \/ TaskAcquire(p, i)
        \/ \E out \in FetchOutputs(tasks[p][i].source) : TaskFetched(p, i, out)
        \/ MarkLoad(p, i)
        \/ MarkSave(p, i)
        \/ MarkError(p, i)

\* the steps of fetch_all once gather is complete
FinishStep(p) == GatherLoad(p) \/ SavePartition(p) \/ StoreError(p)

InitLive == DedupIdle /\ StoreInit /\ ProcInit /\ procs = {"p1"} /\ RestIdle

NextLive ==
    \/ \E p \in procs, force \in BOOLEAN : FetchAll(p, force)
    \/ \E p \in procs, source_id \in SourceIds : FetchSingle(p, source_id)
    \/ \E p \in procs : TaskStep(p)
    \/ \E p \in procs : FinishStep(p)
    \/ \E p \in procs : Return(p)

SpecLive ==
    /\ InitLive /\ [][NextLive]_vars
    /\ \A p \in Procs : WF_vars(TaskStep(p)) /\ WF_vars(FinishStep(p))

\* ------------------ fetch_all while another process disables sources in the registry
InitMark ==
    /\ DedupIdle /\ StoreInit /\ ProcInit /\ procs = {"p1"} /\ RestIdle
    /\ \A k \in SourceIds : registry[k].enabled

NextMark ==
    \/ \E p \in procs, force \in BOOLEAN : FetchAll(p, force)
    \/ \E p \in procs : \E i \in 1..Len(tasks[p]) : TaskAcquire(p, i)
    \/ \E p \in procs : \E i \in 1..Len(tasks[p]) :
          \E out \in FetchOutputs(tasks[p][i].source) : TaskFetched(p, i, out)
    \/ \E p \in procs : \E i \in 1..Len(tasks[p]) : MarkLoad(p, i)
    \/ \E p \in procs : \E i \in 1..Len(tasks[p]) : MarkSave(p, i)
    \/ \E p \in procs : GatherLoad(p)
    \/ \E p \in procs : SavePartition(p)
    \/ \E p \in procs : Return(p)
    \/ \E source_id \in SourceIds : DisableSource(source_id)

SpecMark == InitMark /\ [][NextMark]_vars

\* ------------------------- specifications of should_fetch and of the Summarizer
InitShould == ShouldInit /\ DedupIdle /\ OrchIdle /\ SumIdle
SpecShould == InitShould /\ [][ShouldFetchCall]_vars

InitSum == DedupIdle /\ OrchIdle /\ RestIdle

\* one call of generate_summary, over every article list and response of the bounds
NextSummarize ==
    \/ \E target_date \in Dates, articles \in BSeq(SumArticle, MaxArticles) :
          s_calls = 0 /\ SumCall(target_date, TRUE, articles)
    \/ \E target_date \in Dates : s_calls = 0 /\ SumCall(target_date, FALSE, <<>>)
    \/ \E response_text \in Responses : SumGenerate(response_text)
    \/ ClientRetry
    \/ SumClientError

SpecSummarize == InitSum /\ [][NextSummarize]_vars

\* the article lists and responses of the runs of several calls
SumLists ==
    {<<>>, <<[id |-> "u2", published_at |-> 2, fetched_at |-> 1]>>,
     <<[id |-> "u1", published_at |-> Never, fetched_at |-> 1],
       [id |-> "u2", published_at |-> 2, fetched_at |-> 3],
       [id |-> "u1", published_at |-> Never, fetched_at |-> 3]>>}
SumResponses ==
    {<<LProse>>, <<LJson(JNum)>>,
     <<LFenceJson, LJson(JObj([summary |-> JStr("S"), key_topics |-> JMissing,
                               notable_stories |-> JList(<<StoryFull>>)])), LFence>>}

\* the summarize command run again and again, with get_summary in between
NextSum ==
    \/ \E target_date \in Dates, articles \in SumLists : SumCall(target_date, TRUE, articles)
    \/ \E target_date \in Dates : SumCall(target_date, FALSE, <<>>)
    \/ \E response_text \in SumResponses : SumGenerate(response_text)
    \/ ClientRetry
    \/ SumClientError
    \/ \E target_date \in Dates : GetSummary(target_date)

SpecSum == InitSum /\ [][NextSum]_vars

\* two processes, each running generate_summary once, in every interleaving
NextSumConc ==
    \/ \E target_date \in Dates, articles \in SumLists :
          s_calls = 0 /\ SumCall(target_date, TRUE, articles)
    \/ \E response_text \in SumResponses : SumGenerate(response_text)
    \/ ClientRetry
    \/ SumClientError
    \/ \E target_date \in Dates, articles \in SumLists : OtherCall(target_date, articles)
    \/ \E response_text \in SumResponses : OtherGenerate(response_text)
    \/ OtherClientError

SpecSumConc == InitSum /\ [][NextSumConc]_vars

\* =========================================================== checked claims
IdsOf(articles) == {articles[k].id : k \in 1..Len(articles)}
HashesOf(articles) == {articles[k].content_hash : k \in 1..Len(articles)} \ {""}

\* C1: deduplicate(A, B) holds no article whose id is the id of an article of B, and
\* no article whose non-empty content_hash is the content_hash of an article of B.
C1_NothingFromExisting ==
    d_pc = "done" =>
        \A k \in 1..Len(d_result) : \A j \in 1..Len(d_existing) :
            /\ d_result[k].id # d_existing[j].id
            /\ d_result[k].content_hash # "" =>
                  d_result[k].content_hash # d_existing[j].content_hash

\* a call that dropped one candidate for its id and one for its content, and kept one
C1_Witness ==
    /\ d_pc = "done" /\ Len(d_existing) = 1 /\ Len(d_new) = 3
    /\ d_existing[1].content_hash # ""
    /\ d_new[1].id = d_existing[1].id /\ d_new[1].content_hash = ""
    /\ d_new[2].id # d_existing[1].id
    /\ d_new[2].content_hash = d_existing[1].content_hash
    /\ d_result = <<d_new[3]>>

\* the elements of a list at the positions K, in list order
Pick(list, K) ==
    [n \in 1..Cardinality(K) |->
        list[CHOOSE i \in K : Cardinality({j \in K : j <= i}) = n]]

\* b repeats a: same id, or same non-empty content_hash
Repeats(a, b) ==
    \/ a.id = b.id
    \/ a.content_hash # "" /\ a.content_hash = b.content_hash

\* C2: deduplicate(A, []) is a subsequence of A in input order; an article is left
\* out exactly when an earlier kept article has its id or its non-empty content_hash;
\* of two candidates with one URL and different titles exactly the first is kept.
C2_FirstOccurrenceWins ==
    (d_pc = "done" /\ d_existing = <<>>) =>
        /\ \E K \in SUBSET (1..Len(d_new)) :
              /\ d_result = Pick(d_new, K)
              /\ \A i \in 1..Len(d_new) :
                    i \in K <=> ~\E j \in K : j < i /\ Repeats(d_new[j], d_new[i])
        /\ (Len(d_new) = 2 /\ d_new[1].id = d_new[2].id
               /\ d_new[1].title # d_new[2].title) => d_result = <<d_new[1]>>

\* the second candidate repeats the URL of the first under another title and is left
\* out; the third has the content of the second and is kept, the second was not
C2_Witness ==
    /\ d_pc = "done" /\ d_existing = <<>> /\ Len(d_new) = 3
    /\ d_new[1].id = d_new[2].id /\ d_new[1].title # d_new[2].title
    /\ d_new[1].content_hash = "" /\ d_new[2].content_hash # ""
    /\ d_new[3].content_hash = d_new[2].content_hash /\ d_new[3].id # d_new[1].id
    /\ d_result = <<d_new[1], d_new[3]>>

\* the invocation of p is a fetch_all(force=False) that directly follows one, with
\* no time passed, and every source fetched returns again what it returned then
SecondDefaultRun(p) ==
    /\ pc[p] = "returned"
    /\ args[p].kind = "fetch_all" /\ ~args[p].force
    /\ args[p].prior.mode \in {"default", "default_failed"}
    /\ \A i \in 1..Len(tasks[p]) :
          tasks[p][i].articles = <<>> <=> tasks[p][i].source.id \in args[p].prior.empty

C4_ConcurrencyCap ==
    \A p \in procs : Cardinality(Guarded(p)) <= max_concurrent_fetches

\* the cap is reached while another task waits for a permit
C4_Witness ==
    \E p \in procs :
        /\ Cardinality(Guarded(p)) = max_concurrent_fetches
        /\ \E i \in 1..Len(tasks[p]) : tasks[p][i].st = "waiting"

\* every article of `articles` is in `stored` or repeats an article of `stored`
Covered(articles, stored) ==
    \A k \in 1..Len(articles) : \E j \in 1..Len(stored) : Repeats(stored[j], articles[k])

\* C5: a failing task neither aborts fetch_all nor its sibling tasks; what is
\* deduplicated, stored and returned are the articles of the tasks that did not fail.
C5_FailedTasksIsolated ==
    /\ [](\A p \in procs :
            /\ pc[p] \in {"save", "returned"} =>
                  /\ \A i \in 1..Len(tasks[p]) : tasks[p][i].st \in {"done", "failed"}
                  /\ \A k \in 1..Len(frame[p].new_articles) :
                        \E i \in 1..Len(tasks[p]) :
                            /\ tasks[p][i].st = "done"
                            /\ frame[p].new_articles[k] \in Range(tasks[p][i].articles)
            /\ pc[p] = "returned" =>
                  \A i \in 1..Len(tasks[p]) :
                      tasks[p][i].st = "done" => Covered(tasks[p][i].articles, partition))
    /\ [][\A p \in procs :
            (\E i \in 1..Len(tasks[p]) :
                 Len(tasks'[p]) = Len(tasks[p])
                 /\ tasks[p][i].st # "failed" /\ tasks'[p][i].st = "failed") =>
                /\ pc'[p] = "gather"
                /\ \A j \in 1..Len(tasks[p]) :
                      tasks[p][j].st = "failed" \/ tasks'[p][j] = tasks[p][j]
                         \/ tasks'[p][j].st = "failed"]_vars

\* an invocation returned the articles of one task although another task, which had
\* fetched entries, failed
C5_Witness ==
    \E p \in procs :
        /\ pc[p] = "returned" /\ frame[p].new_articles # <<>>
        /\ \E i, j \in 1..Len(tasks[p]) :
              /\ tasks[p][i].st = "failed" /\ tasks[p][i].articles # <<>>
              /\ tasks[p][j].st = "done" /\ tasks[p][j].articles # <<>>

\* C6 as claimed: after two overlapping invocations have both returned, the
\* partition holds every article either of them returned as new.
C6_NoLostArticles ==
    (\A p \in procs : pc[p] = "returned") =>
        \A p \in procs : Range(frame[p].new_articles) \subseteq Range(partition)

\* C7 as claimed: after two overlapping invocations have both ended, every source
\* whose mark_fetched completed has its last_fetched set in the registry.
C7_NoLostMark ==
    (\A p \in procs : pc[p] \in {"returned", "raised"}) =>
        \A p \in procs : \A i \in 1..Len(tasks[p]) :
            tasks[p][i].st = "done" =>
                get_by_id(registry, tasks[p][i].source.id).last_fetched # Never

\* C8: fetch_all saves the partition exactly when deduplication left a new article;
\* what it saves is the loaded articles followed by the new ones; nothing else
\* changes the partition.
C8_WriteIffNew ==
    [][/\ \A p \in procs :
            /\ (pc[p] = "gather" /\ pc'[p] \in {"save", "returned"}) =>
                  /\ pc'[p] = "save" <=> frame'[p].new_articles # <<>>
                  /\ frame'[p].existing_articles = partition
                  /\ partition' = partition
            /\ (pc[p] = "save" /\ pc'[p] = "returned") =>
                  partition' = frame[p].existing_articles \o frame[p].new_articles
       /\ partition' # partition =>
             \E p \in procs : /\ pc[p] = "save" /\ pc'[p] = "returned"
                              /\ frame[p].new_articles # <<>>]_vars

\* a save that put new articles behind the ones already stored
C8_Witness ==
    \E p \in procs :
        /\ pc[p] = "returned"
        /\ frame[p].existing_articles # <<>> /\ frame[p].new_articles # <<>>
        /\ partition = frame[p].existing_articles \o frame[p].new_articles

\* C9: an invocation returns no article id that an earlier invocation returned as
\* new, and no article id that was in the partition when it loaded it.
C9_ReturnsOnlyNew ==
    \A p \in procs :
        pc[p] = "returned" =>
            /\ IdsOf(frame[p].new_articles) \cap returned_ids = {}
            /\ IdsOf(frame[p].new_articles) \cap IdsOf(frame[p].existing_articles) = {}

\* a later invocation that fetched a stored article again and returned another one
C9_Witness ==
    \E p \in procs :
        /\ pc[p] = "returned" /\ frame[p].new_articles # <<>> /\ returned_ids # {}
        /\ \E i \in 1..Len(tasks[p]) :
              tasks[p][i].st = "done"
              /\ IdsOf(tasks[p][i].articles) \cap returned_ids # {}

\* the registry record of the source of task i of p was marked during the invocation
MarkedDuring(p, i) ==
    LET source == get_by_id(registry, tasks[p][i].source.id)
    IN /\ source.last_fetched # Never
       /\ source.last_fetched >= args[p].started /\ source.last_fetched <= now
       /\ now - args[p].started < source.fetch_interval_hours =>
             ~should_fetch(source, now)

EnabledIds == {registry[k].id : k \in {j \in 1..Len(registry) : registry[j].enabled}}
\* the ids of the enabled sources never fetched or fetched at least their interval ago
DueIds ==
    {registry[k].id :
        k \in {j \in 1..Len(registry) :
                 /\ registry[j].enabled
                 /\ \/ registry[j].last_fetched = Never
                    \/ now - registry[j].last_fetched >= registry[j].fetch_interval_hours}}

\* C11: fetch_all without a source list dispatches exactly the enabled sources when
\* force is true and exactly the enabled sources that are due when force is false,
\* each once; a disabled source is never dispatched.
C11_DispatchedSources ==
    [][\A p \in procs :
          (pc[p] = "idle" /\ pc'[p] # "idle" /\ args'[p].kind = "fetch_all") =>
              /\ {tasks'[p][i].source.id : i \in 1..Len(tasks'[p])} =
                    IF args'[p].force THEN EnabledIds ELSE DueIds
              /\ Len(tasks'[p]) = Cardinality({tasks'[p][i].source.id : i \in 1..Len(tasks'[p])})
              /\ \A i \in 1..Len(tasks'[p]) : tasks'[p][i].source.enabled]_vars

\* a default run that dispatched the due source and left out the enabled source
\* fetched within its interval
C11_Witness ==
    \E p \in procs :
        /\ pc[p] = "gather" /\ args[p].kind = "fetch_all" /\ ~args[p].force
        /\ \A i \in 1..Len(tasks[p]) : tasks[p][i].st = "waiting"
        /\ EnabledIds # DueIds
        /\ {tasks[p][i].source.id : i \in 1..Len(tasks[p])} = DueIds

\* C12: should_fetch is false for a disabled source whatever its last_fetched, true
\* for an enabled source never fetched, and for an enabled source fetched before it is
\* true exactly when the hours since last_fetched are at least fetch_interval_hours;
\* with an interval of 24, 23 hours give false and 24 hours give true.
C12_ShouldFetch ==
    sf_pc = "done" =>
        /\ ~sf_source.enabled => sf_result = FALSE
        /\ (sf_source.enabled /\ sf_source.last_fetched = Never) => sf_result = TRUE
        /\ (sf_source.enabled /\ sf_source.last_fetched # Never) =>
              (sf_result = TRUE <=>
                  sf_now - sf_source.last_fetched >= sf_source.fetch_interval_hours)
        /\ (sf_source.enabled /\ sf_source.last_fetched # Never
               /\ sf_source.fetch_interval_hours = 24) =>
              /\ sf_now - sf_source.last_fetched = 23 => sf_result = FALSE
              /\ sf_now - sf_source.last_fetched = 24 => sf_result = TRUE

\* an enabled source with an interval of 24 hours, fetched exactly 24 hours ago, is due
C12_Witness ==
    /\ sf_pc = "done" /\ sf_source.enabled /\ sf_source.fetch_interval_hours = 24
    /\ sf_source.last_fetched # Never /\ sf_now - sf_source.last_fetched = 24
    /\ sf_result = TRUE

\* C13 as claimed: when loading or saving the article file of the date fails during
\* fetch_all, fetch_all raises; it does not go on to save or to return a list.
C13_FailureRaised ==
    [][\A p \in procs :
          (pc[p] = "gather" /\ pc'[p] # "gather" /\ undecodable) => pc'[p] = "raised"]_vars

\* C14: generate_summary for a date without stored articles, or with an explicit
\* empty list, returns None, sends no request to the generation client and does not
\* write the summary store.
C14_NothingToSummarize ==
    [][(s_calls' = s_calls + 1 /\ s_args'.articles = <<>>) =>
          /\ s_pc' = "returned" /\ s_result' = NoSummary
          /\ requests' = requests
          /\ summary_store' = summary_store]_vars

\* None came back for a date without stored articles whose earlier summary is still
\* in the store
C14_Witness ==
    /\ s_pc = "returned" /\ ~s_args.given /\ s_args.articles = <<>>
    /\ s_result = NoSummary
    /\ summary_store[s_args.target_date] # <<>>
    /\ requests = s_calls - 1

\* C15 as claimed: once the generation client has returned a response text,
\* generate_summary on a non-empty article list does not raise, whatever the text;
\* it returns a DailySummary and that summary is what the store holds for the date.
C15_ResponseNeverRaises ==
    /\ s_pc = "raised" => s_result = Raised("RetryError")
    /\ (s_pc = "returned" /\ s_args.articles # <<>>) =>
          /\ s_result # NoSummary
          /\ summary_store[s_args.target_date] = <<s_result>>

\* the client's response has arrived and generate_summary is over
Responded == s_pc \in {"returned", "raised"} /\ s_kept # <<>> /\ s_result # Raised("RetryError")

\* C16: when the response text, code fences stripped, is not valid JSON, the summary
\* produced has the raw response text as summary_text, no key_topics, no
\* notable_stories, and article_count equal to the number of articles summarized.
C16_FallbackSummary ==
    (Responded /\ json_loads(StripFences(s_response)) = JSONDecodeError) =>
        /\ s_pc = "returned"
        /\ s_result.summary_text = [text |-> s_response]
        /\ s_result.key_topics = <<>>
        /\ s_result.notable_stories = <<>>
        /\ s_result.article_count = Len(s_kept)

\* prose inside a code fence: the summary text keeps the fence lines, and the count
\* is that of the articles kept by the cap
C16_Witness ==
    /\ Responded /\ s_pc = "returned"
    /\ s_response = <<LFenceJson, LProse, LFence>>
    /\ s_result.summary_text = [text |-> <<LFenceJson, LProse, LFence>>]
    /\ Len(s_args.articles) > max_articles_per_summary
    /\ s_result.article_count = max_articles_per_summary

\* the JSON value the response text holds, when it holds one
ResponseData == json_loads(StripFences(s_response)).data
WellFormed(members) ==
    /\ members.summary = JMissing \/ IsStr(members.summary)
    /\ KeyTopics([obj |-> members]) \in {JList(<<>>), JList(<<JStr("k")>>)}
    /\ members.notable_stories \in {JMissing, JList(<<StoryFull>>), JList(<<StoryNoUrl>>)}

\* C17 as claimed: when the response parses as a JSON object, generate_summary does
\* not raise over a missing member and gives it an empty value: a missing summary an
\* empty summary_text, a missing key_topics or notable_stories an empty list, and a
\* story without title, source, brief or url the empty string for that field.
C17_MissingDefaultsEmpty ==
    (Responded /\ json_loads(StripFences(s_response)) # JSONDecodeError
        /\ IsObj(ResponseData) /\ WellFormed(ResponseData.obj)) =>
        /\ s_pc = "returned"
        /\ ResponseData.obj.summary = JMissing => s_result.summary_text = JStr("")
        /\ ResponseData.obj.key_topics = JMissing => s_result.key_topics = <<>>
        /\ ResponseData.obj.notable_stories = JMissing => s_result.notable_stories = <<>>
        /\ ResponseData.obj.notable_stories = JList(<<StoryNoUrl>>) =>
              s_result.notable_stories =
                  <<[title |-> "T", source |-> "", brief |-> "b", url |-> ""]>>

\* published_at, or fetched_at where there is none
Timestamp(a) == IF a.published_at = Never THEN a.fetched_at ELSE a.published_at
\* the ways of finding the kept articles among the given ones, position by position
Placements(kept, given) ==
    {f \in [1..Len(kept) -> 1..Len(given)] :
        /\ \A i, j \in 1..Len(kept) : f[i] = f[j] => i = j
        /\ \A i \in 1..Len(kept) : given[f[i]] = kept[i]}

\* C18: of n articles with cap c, generate_summary summarizes exactly c when n > c,
\* each of them at least as recent (published_at, else fetched_at) as every article
\* left out; when n <= c it summarizes all n in their input order.
C18_CapKeepsMostRecent ==
    (s_pc # "idle" /\ s_args.articles # <<>>) =>
        IF Len(s_args.articles) > max_articles_per_summary
        THEN /\ Len(s_kept) = max_articles_per_summary
             /\ \E f \in Placements(s_kept, s_args.articles) :
                   \A j \in 1..Len(s_args.articles) :
                       (\A i \in 1..Len(s_kept) : f[i] # j) =>
                           \A i \in 1..Len(s_kept) :
                               Timestamp(s_kept[i]) >= Timestamp(s_args.articles[j])
        ELSE s_kept = s_args.articles

\* more articles than the cap: the first one given is left out, and an article
\* without publication time is kept on the strength of its fetch time
C18_Witness ==
    /\ s_pc = "generate"
    /\ Len(s_args.articles) > max_articles_per_summary
    /\ Len(s_kept) = max_articles_per_summary
    /\ s_kept[1].published_at = Never
    /\ s_args.articles[1].published_at # Never
    /\ \A i \in 1..Len(s_kept) : Timestamp(s_kept[i]) > Timestamp(s_args.articles[1])

\* C19: every DailySummary the Summarizer creates, from a parsed response or from
\* the fallback, has article_count equal to the length of article_ids, and
\* article_ids are the ids of the articles kept after the cap, in prompt order.
C19_CountAndIds ==
    (s_pc = "returned" /\ s_result # NoSummary) =>
        /\ s_result.article_count = Len(s_result.article_ids)
        /\ Len(s_result.article_ids) = Len(s_prompt)
        /\ \A k \in 1..Len(s_prompt) : s_result.article_ids[k] = s_prompt[k].url
        /\ Len(s_kept) = Len(s_prompt)
        /\ \A k \in 1..Len(s_kept) : s_result.article_ids[k] = s_kept[k].id

\* a parsed response for three articles capped to two of different ids, which come
\* in the summary in another order than they were given
C19_Witness ==
    /\ s_pc = "returned" /\ s_result # NoSummary
    /\ s_result.summary_text = JStr("S")
    /\ Len(s_args.articles) > max_articles_per_summary
    /\ s_result.article_count = max_articles_per_summary
    /\ s_result.article_ids[1] # s_result.article_ids[2]
    /\ s_result.article_ids[1] # s_args.articles[1].id

ClientFailed == s_pc = "raised" /\ s_result \in {Raised("RetryError"), Raised("APIError")}

\* the attempts and waits of one client.generate call: at most 3 requests, a wait of
\* 4 to 30 before each retry, a retry only below 3 attempts, no request after the
\* response, and a failure only after the third attempt
C21_AttemptsAndWaits ==
    /\ [](/\ attempt <= 3
          /\ Len(waits) = (IF attempt = 0 THEN 0 ELSE attempt - 1)
          /\ \A k \in 1..Len(waits) : waits[k] >= 4 /\ waits[k] <= 30
          /\ ClientFailed => attempt = 3)
    /\ [][/\ (s_pc = "generate" /\ requests' # requests) =>
                 (attempt < 3 /\ requests' = requests + 1 /\ Len(waits') = Len(waits) + 1)
          /\ (s_pc = "generate" /\ s_pc' # "generate") => requests' = requests]_vars

\* C21 as claimed: one generate call of the client issues at most 3 requests, returns
\* the first successful response without a further request, retries only while fewer
\* than 3 attempts were made, waits between 4 and 30 before each retry, and after the
\* third failed attempt stops and the final error (the provider's) reaches the caller.
C21_AsClaimed ==
    /\ C21_AttemptsAndWaits
    /\ [](ClientFailed => s_result = Raised("APIError"))

\* C22: when the generation client fails on all its attempts, generate_summary raises
\* and returns no summary; the step writes nothing to the summary store, so an
\* earlier summary of that date stays as it was and no empty or partial record is
\* stored.
C22_FailureWritesNothing ==
    /\ [][(s_pc = "generate" /\ s_pc' = "raised" /\ s_response' = s_response
              /\ s_result' = Raised("RetryError"))
             => (attempt = 3 /\ summary_store' = summary_store)]_vars
    /\ [](ClientFailed =>
             /\ DidRaise(s_result)
             /\ \A d \in Dates :
                   summary_store[d] = IF s_latest[d] = NoSummary THEN <<>>
                                      ELSE <<s_latest[d]>>)

\* a summary of the date was stored, then a second generate_summary for that date
\* failed on its three attempts: the earlier summary is still the stored one
C22_Witness ==
    /\ ClientFailed /\ attempt = 3 /\ s_calls = 2
    /\ s_latest[s_args.target_date] # NoSummary
    /\ summary_store[s_args.target_date] = <<s_latest[s_args.target_date]>>

\* C23: two generate_summary invocations for the same date may overlap; in every
\* interleaving the summary store then holds for that date exactly one summary, the
\* one whose save happened last.
C23_LastSaveWins ==
    \A d \in Dates :
        /\ Len(summary_store[d]) <= 1
        /\ (/\ s_pc = "returned" /\ s_result # NoSummary /\ s_args.target_date = d
            /\ o_pc = "returned" /\ o_result # NoSummary /\ o_args.target_date = d)
           => /\ saver[d] \in {"main", "other"}
              /\ summary_store[d] = <<IF saver[d] = "main" THEN s_result ELSE o_result>>

\* the second invocation began while the first was waiting for its response and
\* saved first; the first saved last, and its summary, a different one, is the one
\* stored
C23_Witness ==
    /\ s_pc = "returned" /\ s_result # NoSummary
    /\ o_pc = "returned" /\ o_result # NoSummary
    /\ o_args.during = "generate"
    /\ o_args.target_date = s_args.target_date
    /\ saver[s_args.target_date] = "main"
    /\ o_result # s_result
    /\ summary_store[s_args.target_date] = <<s_result>>

\* C24: starting from an empty partition, after any sequence of fetch_all
\* invocations that do not overlap, the partition never holds two articles with the
\* same id, nor two articles with the same non-empty content_hash.
C24_PartitionHasNoDuplicates ==
    \A i, j \in 1..Len(partition) :
        i # j => /\ partition[i].id # partition[j].id
                 /\ (partition[i].content_hash = ""
                        \/ partition[i].content_hash # partition[j].content_hash)

\* a later invocation found articles stored, fetched more entries than it kept, and
\* added what it kept: the partition holds several articles
C24_Witness ==
    \E p \in procs :
        /\ pc[p] = "returned" /\ returned_ids # {}
        /\ frame[p].existing_articles # <<>> /\ frame[p].new_articles # <<>>
        /\ Len(Flatten(tasks[p])) > Len(frame[p].new_articles)
        /\ Len(partition) >= 2

\* the partition save of p's invocation failed
SaveFailed(p) == pc[p] = "raised" /\ frame[p].new_articles # <<>>

\* C25: the last_fetched update of every dispatched source happens before the
\* partition is loaded and written; when the partition save fails, the sources whose
\* tasks completed stay marked and are not due on the next default run, and the new
\* articles they returned are in no partition.
C25_MarkedBeforeSave ==
    /\ [][registry' # registry =>
             \E p \in procs : pc[p] = "gather" /\ pc'[p] = "gather"
                              /\ frame'[p] = NoFrame]_vars
    /\ [](\A p \in procs :
             SaveFailed(p) =>
                /\ \A i \in 1..Len(tasks[p]) :
                      tasks[p][i].st = "done" => MarkedDuring(p, i)
                /\ IdsOf(frame[p].new_articles) \cap IdsOf(partition) = {})

\* the save failed after a never fetched source with an interval returned new
\* articles: the source is marked and not due, the articles are not stored
C25_Witness ==
    \E p \in procs :
        /\ SaveFailed(p)
        /\ \E i \in 1..Len(tasks[p]) :
              /\ tasks[p][i].st = "done"
              /\ Range(tasks[p][i].articles) \cap Range(frame[p].new_articles) # {}
              /\ tasks[p][i].source.last_fetched = Never
              /\ tasks[p][i].source.enabled
              /\ tasks[p][i].source.fetch_interval_hours > 0
              /\ get_by_id(registry, tasks[p][i].source.id).last_fetched = now
              /\ ~should_fetch(get_by_id(registry, tasks[p][i].source.id), now)
        /\ Range(frame[p].new_articles) \cap Range(partition) = {}

\* the articles the adapter of task i of p returned and no completed task returned
OnlyOfFailed(p, i) ==
    {a \in Range(tasks[p][i].articles) :
        \A j \in 1..Len(tasks[p]) :
            tasks[p][j].st = "done" => a \notin Range(tasks[p][j].articles)}

\* C26: when the registry write of mark_fetched raises inside a task, the task
\* counts as failed; the articles its adapter returned are discarded, neither stored
\* nor returned; the error does not reach fetch_all's caller: the invocation goes on
\* gathering.
C26_MarkErrorDiscardsArticles ==
    /\ [][\A p \in procs : \A i \in 1..Len(tasks[p]) :
             (Len(tasks'[p]) = Len(tasks[p])
                 /\ tasks[p][i].st \in MarkStates /\ tasks'[p][i].st = "failed") =>
                /\ pc'[p] = "gather"
                /\ tasks'[p][i].articles = tasks[p][i].articles
                /\ partition' = partition]_vars
    /\ [](\A p \in procs : \A i \in 1..Len(tasks[p]) :
             (tasks[p][i].st = "failed" /\ pc[p] \in {"save", "returned"}) =>
                /\ OnlyOfFailed(p, i) \cap Range(frame[p].new_articles) = {}
                /\ OnlyOfFailed(p, i) \cap Range(partition)
                      \subseteq Range(frame[p].existing_articles))

\* fetch_all returned although the mark of a source failed; the entries its adapter
\* had fetched are neither returned nor stored, while another source's are
C26_Witness ==
    \E p \in procs :
        /\ pc[p] = "returned" /\ frame[p].new_articles # <<>>
        /\ \E i \in 1..Len(tasks[p]) :
              /\ tasks[p][i].st = "failed"
              /\ OnlyOfFailed(p, i) # {}
              /\ OnlyOfFailed(p, i) \cap Range(partition) = {}
              /\ get_by_id(registry, tasks[p][i].source.id).last_fetched = Never

\* the articles of the first n tasks that completed, source after source in the
\* order of the source list
RECURSIVE InListOrder(_, _)
InListOrder(ts, n) ==
    IF n = 0 THEN <<>>
    ELSE InListOrder(ts, n - 1) \o (IF ts[n].st = "done" THEN ts[n].articles ELSE <<>>)

\* the same, in the opposite order
RECURSIVE InReverseOrder(_, _)
InReverseOrder(ts, n) ==
    IF n = 0 THEN <<>>
    ELSE (IF ts[n].st = "done" THEN ts[n].articles ELSE <<>>) \o InReverseOrder(ts, n - 1)

\* C27: for the same source list, stored partition and adapter outputs, the articles
\* stored and returned are the same whatever the order in which the tasks ran: they
\* are the deduplication of the outputs merged in source-list order.
C27_MergedInListOrder ==
    \A p \in procs :
        pc[p] \in {"save", "returned"} =>
            /\ \A i, j \in 1..Len(tasks[p]) :
                  i < j => tasks[p][i].source.id < tasks[p][j].source.id
            /\ frame[p].new_articles =
                  deduplicate(InListOrder(tasks[p], Len(tasks[p])),
                              frame[p].existing_articles)
            /\ (pc[p] = "returned" /\ frame[p].new_articles # <<>>) =>
                  partition = frame[p].existing_articles \o frame[p].new_articles

\* the second source of the list was fetched and marked an hour before the first;
\* merging in that order would have kept other articles than those returned
C27_Witness ==
    \E p \in procs :
        /\ pc[p] = "returned" /\ Len(tasks[p]) = 2
        /\ \A i \in 1..2 : tasks[p][i].st = "done" /\ tasks[p][i].source.last_fetched = Never
        /\ get_by_id(registry, tasks[p][2].source.id).last_fetched
              < get_by_id(registry, tasks[p][1].source.id).last_fetched
        /\ frame[p].new_articles
              # deduplicate(InReverseOrder(tasks[p], 2), frame[p].existing_articles)

\* C28: fetch_single on a known source dispatches it whether or not it is enabled or
\* due; when its task completes, the adapter's output was deduplicated, the new
\* articles are stored and the source's last_fetched is set.
C28_FetchSingleIgnoresEnabled ==
    /\ [][\A p \in procs : \A source_id \in SourceIds :
             (get_by_id(registry, source_id) # NoSource /\ FetchSingle(p, source_id)) =>
                /\ pc'[p] = "gather"
                /\ Len(tasks'[p]) = 1
                /\ tasks'[p][1].source = get_by_id(registry, source_id)]_vars
    /\ [](\A p \in procs :
             (pc[p] = "returned" /\ args[p].kind = "fetch_single"
                 /\ Len(tasks[p]) = 1 /\ tasks[p][1].st = "done") =>
                /\ MarkedDuring(p, 1)
                /\ tasks[p][1].articles \in FetchOutputs(tasks[p][1].source)
                /\ frame[p].new_articles =
                      deduplicate(tasks[p][1].articles, frame[p].existing_articles)
                /\ Range(frame[p].new_articles) \subseteq Range(partition))

\* fetch_single ran on a disabled, never fetched source: its entries were fetched
\* and stored and it is marked, still disabled
C28_Witness ==
    \E p \in procs :
        /\ pc[p] = "returned" /\ args[p].kind = "fetch_single"
        /\ Len(tasks[p]) = 1 /\ tasks[p][1].st = "done"
        /\ ~tasks[p][1].source.enabled /\ tasks[p][1].source.last_fetched = Never
        /\ ~get_by_id(registry, tasks[p][1].source.id).enabled
        /\ get_by_id(registry, tasks[p][1].source.id).last_fetched = now
        /\ frame[p].new_articles # <<>>
        /\ Range(frame[p].new_articles) \subseteq Range(partition)

\* every task of p has ended
Gathered(p) == \A i \in 1..Len(tasks[p]) : tasks[p][i].st \in {"done", "failed"}

\* C29: when every adapter fetch returns or raises, every fetch_all invocation
\* terminates: each waiting task comes to hold a permit of the semaphore, a permit is
\* given back also by a task that fails, and once the tasks have ended all permits
\* are back.
C29_Terminates ==
    /\ \A p \in Procs : (pc[p] = "gather") ~> (pc[p] \in {"returned", "raised"})
    /\ \A p \in Procs : \A i \in SourceIds :
          (Len(tasks[p]) >= i /\ tasks[p][i].st = "waiting")
             ~> (Len(tasks[p]) >= i /\ tasks[p][i].st = "fetching")
    /\ [](\A p \in Procs :
             /\ semaphore[p] \in 0..max_concurrent_fetches
             /\ Gathered(p) => semaphore[p] = max_concurrent_fetches)

\* the first task failed in mark_fetched and gave its permit back: the second task,
\* which was waiting for it, is fetching
C29_Witness ==
    \E p \in procs :
        /\ pc[p] = "gather" /\ Len(tasks[p]) = 2
        /\ tasks[p][1].st = "failed" /\ tasks[p][2].st = "fetching"
        /\ semaphore[p] = max_concurrent_fetches - 1

\* C30 as claimed: mark_fetched(id) on a known source changes only the last_fetched
\* of that source: when it has saved, every other field of the source and every
\* other source hold what the registry held just before, also when this was written
\* after the fetch of the source began.
C30_MarkChangesOnlyLastFetched ==
    [][\A p \in procs : \A i \in 1..Len(tasks[p]) :
          (Len(tasks'[p]) = Len(tasks[p])
              /\ tasks[p][i].st = "mark_save" /\ tasks'[p][i].st = "done") =>
             \A k \in 1..Len(registry) :
                 registry'[k] = IF registry[k].id = tasks[p][i].source.id
                                THEN [registry[k] EXCEPT !.last_fetched = now]
                                ELSE registry[k]]_vars

====
